---- MODULE Spec2Model ----
(***************************************************************************)
(* Model of libretromame.c: the libretro front end (driver thread) and the *)
(* libmame runner threads (workers) that rendezvous through mutexG,        *)
(* toRunnerCondG and fromRunnerCondG, and the video/audio callbacks the    *)
(* engine invokes on the runner thread.                                    *)
(*                                                                         *)
(* Reading of the identifiers the file uses but never declares:            *)
(*   fromRunnerThreadG (line 228) is fromRunnerCondG;                      *)
(*   resetG (lines 234, 580, 582) is a static bool, initially false.       *)
(***************************************************************************)
EXTENDS Integers, Sequences, FiniteSets, TLC

\* ---------------------------------------------------------------- bounds
MaxThreads == 2
MaxRunCalls == 2

\* ------------------------------------------------------ program constants
NoGame == -1
FrameCapacity == 1000000
GameNumbers == {0}
Word16 == 65536

Workers == 1 .. MaxThreads
Driver == 0

VARIABLES
    retroVideoRefreshG,       \* BOOLEAN: a video-delivery callback is registered
    mutexG,                   \* {} unlocked, {t} locked by thread t
    toRunnerCondG,            \* threads blocked in pthread_cond_wait(&toRunnerCondG)
    fromRunnerCondG,          \* threads blocked in pthread_cond_wait(&fromRunnerCondG)
    runningGameStopG,
    resetG,
    runningGameNumberG,
    runningGameWidthG,
    runningGameHeightG,
    runningGameSampleRateG,
    videoFrameG,              \* the written prefix of videoFrameG[1000 * 1000]
    dpc,                      \* the driver's position inside a retro_* entry point
    wpc,                      \* each runner thread's position
    nthreads,                 \* runner threads created so far by pthread_create
    runCalls,                 \* retro_run calls the driver has made
    videoCalls,               \* invocations of retroVideoRefreshG (saturating)
    renderList,               \* each thread's UpdateVideoCb call: its argument
    vpc,                      \* and the return statement it is at, or "none"
    lastRefresh               \* the <<width, height, pitch>> last delivered

vars == <<retroVideoRefreshG, mutexG, toRunnerCondG, fromRunnerCondG,
          runningGameStopG, resetG, runningGameNumberG, runningGameWidthG,
          runningGameHeightG, runningGameSampleRateG, videoFrameG, dpc, wpc,
          nthreads, runCalls, videoCalls, renderList, vpc, lastRefresh>>

flagVars == <<runningGameStopG, resetG, runningGameNumberG>>
avVars == <<runningGameWidthG, runningGameHeightG, runningGameSampleRateG>>
videoVars == <<runningGameWidthG, runningGameHeightG, videoFrameG, videoCalls>>
syncVars == <<mutexG, toRunnerCondG, fromRunnerCondG>>
frameVars == <<renderList, vpc, lastRefresh>>

\* ------------------------------------------------------------ bit helpers
\* A uint32_t is the pair <<high 16 bits, low 16 bits>>.
RECURSIVE BitOr(_, _)
BitOr(a, b) ==
    IF a = 0 THEN b
    ELSE IF b = 0 THEN a
    ELSE (IF (a % 2 = 1) \/ (b % 2 = 1) THEN 1 ELSE 0)
         + 2 * BitOr(a \div 2, b \div 2)

Byte(x, i) == (x \div (256 ^ i)) % 256

\* column k of the schoolbook product of the bytes of a and b
Column(a, b, k) ==
    LET term(i) == Byte(a, i) * Byte(b, k - i)
    IN  (IF k >= 0 THEN term(0) ELSE 0) + (IF k >= 1 THEN term(1) ELSE 0)
        + (IF k >= 2 THEN term(2) ELSE 0) + (IF k >= 3 THEN term(3) ELSE 0)

\* a * b in uint32_t arithmetic, the product wrapping modulo 2^32
Mul32(a, b) ==
    LET c0 == Column(a, b, 0)
        c1 == Column(a, b, 1) + (c0 \div 256)
        c2 == Column(a, b, 2) + (c1 \div 256)
        c3 == Column(a, b, 3) + (c2 \div 256)
    IN  <<(c3 % 256) * 256 + (c2 % 256), (c1 % 256) * 256 + (c0 % 256)>>

\* comparison of a uint32_t with a constant below 2^31
Gt32(v, n) ==
    \/ v[1] > n \div Word16
    \/ v[1] = n \div Word16 /\ v[2] > n % Word16

And3f(x) == x % 64

\* ------------------------------------------------- Frame Payload Converter
\* A render primitive: type, the screen-texture flag and texture format of
\* prim->flags, and prim->texture.{width,height,rowpixels,base,palette}.
Prim(type, screen, format, width, height, rowpixels, base, palette) ==
    [type |-> type, screen |-> screen, format |-> format, width |-> width,
     height |-> height, rowpixels |-> rowpixels, base |-> base,
     palette |-> palette]

Eligible(prim) == prim.type = "Quad" /\ prim.screen

\* a scan that keeps going and ends on the last eligible primitive
RECURSIVE SelectFromLast(_, _)
SelectFromLast(list, i) ==
    IF i > Len(list) THEN 0
    ELSE IF SelectFromLast(list, i + 1) # 0 THEN SelectFromLast(list, i + 1)
    ELSE IF Eligible(list[i]) THEN i
    ELSE 0

\* lines 473-476: index of the first eligible primitive, 0 when the scan
\* reaches the end of the list
RECURSIVE SelectFrom(_, _)
SelectFrom(list, i) ==
    IF i > Len(list) THEN 0
    ELSE IF Eligible(list[i]) THEN i
    ELSE SelectFrom(list, i + 1)

SelectPrim(list) == SelectFrom(list, 1)

\* line 483
TooBig(prim) == Gt32(Mul32(prim.width, prim.height), FrameCapacity)

\* a source pointer that is not advanced by rowdiff at the end of a row
SrcAtPacked(prim, x, y) == prim.base[y * prim.width + x + 1]

\* source element read for destination (x, y): src advances by one per pixel
\* and by rowdiff = rowpixels - width at the end of each row
SrcAt(prim, x, y) == prim.base[y * prim.rowpixels + x + 1]

PaletteAt(prim, index) == prim.palette[index + 1]

\* what a read outside the palette table may yield
StrayWords == {<<0, 0>>, <<21, 43690>>, <<65535, 65535>>}

\* prim.texture.palette[index] for a 16-bit index: the entry, or any word
\* when the index is outside the table
PaletteRead(prim, index) ==
    IF index < Len(prim.palette) THEN {PaletteAt(prim, index)} ELSE StrayWords

\* prim.texture.palette[*src] for a 32-bit source value
PaletteRead32(prim, v) ==
    IF v[1] = 0 THEN PaletteRead(prim, v[2]) ELSE StrayWords

\* line 499: *dest++ = palette[*src++], stored into a uint16_t
PalettePixel(prim, x, y) ==
    {e[2] : e \in PaletteRead(prim, SrcAt(prim, x, y))}

\* lines 515-517
Pack(xrgb) ==
    BitOr(BitOr(And3f(xrgb[1]) * 1024, And3f(xrgb[2] \div 256) * 32),
          And3f(xrgb[2]))

\* lines 514-517
RGBPixel(prim, x, y) ==
    {Pack(xrgb) : xrgb \in PaletteRead32(prim, SrcAt(prim, x, y))}

\* the sequences the loops may write, given for each position the values
\* its read can turn out as
Written(choices) ==
    {f \in [DOMAIN choices -> UNION {choices[k] : k \in DOMAIN choices}] :
        \A k \in DOMAIN choices : f[k] \in choices[k]}

\* the destination pixels in the order the loops write them (dest++)
ConvertPalette(prim) ==
    Written([k \in 1 .. (prim.width * prim.height) |->
        PalettePixel(prim, (k - 1) % prim.width, (k - 1) \div prim.width)])

ConvertRGB(prim) ==
    Written([k \in 1 .. (prim.width * prim.height) |->
        RGBPixel(prim, (k - 1) % prim.width, (k - 1) \div prim.width)])

\* writing n pixels from the start of the buffer leaves the rest as it was
Overwrite(buf, pixels) ==
    [k \in 1 .. (IF Len(buf) > Len(pixels) THEN Len(buf) ELSE Len(pixels)) |->
        IF k <= Len(pixels) THEN pixels[k] ELSE buf[k]]

IsPaletteFormat(f) == f \in {"Palette16", "PaletteA16"}
IsRGBFormat(f) == f \in {"RGB32", "ARGB32"}

\* the loops of lines 497-502 and 512-521 run width * height times whatever
\* line 483 computed: more than videoFrameG holds
Overruns(prim) ==
    prim.width > 0 /\ prim.height > FrameCapacity \div prim.width

SatInc(n) == IF n > MaxRunCalls THEN n ELSE n + 1

\* lines 534-535
RefreshArgs(width, height) == <<width, height, 2 * width>>

\* the return statements of UpdateVideoCb, and the write past videoFrameG
VideoExits ==
    {"no_callback", "no_quad", "too_big", "unsupported", "delivered",
     "overrun"}

\* lines 459-536: a call that ends at the return statement pos.  Writing past
\* the end of videoFrameG is undefined: the call is then at "overrun", with
\* the callback invoked or not.
UpdateVideoCb(list, pos) ==
    LET i == SelectPrim(list)
        drop(at) == pos = at /\ UNCHANGED <<videoVars, lastRefresh>>
    IN  IF ~retroVideoRefreshG THEN drop("no_callback")
        ELSE IF i = 0 THEN drop("no_quad")
        ELSE IF TooBig(list[i]) THEN drop("too_big")
        ELSE /\ runningGameWidthG' = list[i].width
             /\ runningGameHeightG' = list[i].height
             /\ IF ~IsPaletteFormat(list[i].format)
                   /\ ~IsRGBFormat(list[i].format)
                THEN /\ pos = "unsupported"
                     /\ UNCHANGED <<videoFrameG, videoCalls, lastRefresh>>
                ELSE IF Overruns(list[i])
                THEN /\ pos = "overrun"
                     /\ UNCHANGED videoFrameG
                     /\ \/ UNCHANGED <<videoCalls, lastRefresh>>
                        \/ /\ videoCalls' = SatInc(videoCalls)
                           /\ lastRefresh' = RefreshArgs(list[i].width,
                                                         list[i].height)
                ELSE /\ pos = "delivered"
                     /\ \E pixels \in (IF IsPaletteFormat(list[i].format)
                                       THEN ConvertPalette(list[i])
                                       ELSE ConvertRGB(list[i])) :
                           videoFrameG' = Overwrite(videoFrameG, pixels)
                     /\ videoCalls' = SatInc(videoCalls)
                     /\ lastRefresh' = RefreshArgs(list[i].width,
                                                   list[i].height)

\* the primitive lists and sample rates the engine produces in this model
PaletteA == << <<0, 0>>, <<0, 31>>, <<255, 65535>> >>
FrameLists ==
    { <<>>,
      << Prim("Line", FALSE, "Undefined", 0, 0, 0, <<>>, <<>>),
         Prim("Quad", TRUE, "Palette16", 1, 1, 2, <<1, 2>>, PaletteA) >>,
      << Prim("Quad", TRUE, "YUY16", 2, 1, 2, <<0, 0>>, <<>>) >> }
SampleRates == {48000}

\* --------------------------------------------------------------- pthreads
\* pthread_mutex_lock by thread t, continuing at pc value next.  mutexG has
\* the default type (line 120), for which locking a mutex the caller already
\* owns is undefined: the call either never returns or returns with the
\* caller still the owner.
LockOutcome(t, next) ==
    IF mutexG = {} THEN {<<{t}, next>>}
    ELSE IF mutexG = {t} THEN {<<{t}, next>>, <<{t}, "self_deadlock">>}
    ELSE {}

\* pthread_cond_signal: unblocks one waiting thread, if any.  A thread in
\* pthread_cond_wait stays in the condition's set until a signal removes it
\* (no spurious wake-ups) and then needs the mutex to return.
Signalled(cond) ==
    IF cond = {} THEN {{}} ELSE {cond \ {t} : t \in cond}

\* ------------------------------------------------------------------- Init
Init ==
    /\ retroVideoRefreshG = FALSE
    /\ mutexG = {}
    /\ toRunnerCondG = {}
    /\ fromRunnerCondG = {}
    /\ runningGameStopG = FALSE
    /\ resetG = FALSE
    /\ runningGameNumberG = NoGame
    /\ runningGameWidthG = 0
    /\ runningGameHeightG = 0
    /\ runningGameSampleRateG = 0
    /\ videoFrameG = <<>>
    /\ dpc = "idle"
    /\ wpc = [w \in Workers |-> "unborn"]
    /\ nthreads = 0
    /\ runCalls = 0
    /\ videoCalls = 0
    /\ renderList = [w \in Workers |-> <<>>]
    /\ vpc = [w \in Workers |-> "none"]
    /\ lastRefresh = <<>>

\* ------------------------------------------------- driver: the queries
\* lines 178-179: the engine's refresh rate of a game, a positive frequency
LibMame_GetGame_ScreenRefreshRateHz(game) == 60

\* lines 166-187: the values retro_get_system_av_info stores into *info
retro_get_system_av_info ==
    [base_width |-> runningGameWidthG,
     base_height |-> runningGameHeightG,
     max_width |-> runningGameWidthG,
     max_height |-> runningGameHeightG,
     fps |-> IF runningGameNumberG >= 0
             THEN LibMame_GetGame_ScreenRefreshRateHz(runningGameNumberG)
             ELSE 0,
     sample_rate |-> runningGameSampleRateG]

\* ------------------------------------------------- driver: the setters
\* lines 84-87
retro_set_video_refresh ==
    /\ dpc = "idle"
    /\ \E r \in BOOLEAN : retroVideoRefreshG' = r
    /\ UNCHANGED <<syncVars, flagVars, avVars, videoFrameG, dpc, wpc,
                   nthreads, runCalls, videoCalls, frameVars>>

\* --------------------------------------------- driver: retro_load_game
\* lines 326-330 with LibMame_Get_Game_Number finding the game
LoadLookupFound ==
    /\ dpc = "idle"
    /\ nthreads < MaxThreads
    /\ \E g \in GameNumbers : runningGameNumberG' = g
    /\ dpc' = "load_clear"
    /\ UNCHANGED <<retroVideoRefreshG, syncVars, runningGameStopG, resetG,
                   avVars, videoFrameG, wpc, nthreads, runCalls,
                   videoCalls, frameVars>>

\* lines 326-330 with LibMame_Get_Game_Number returning -1: return false
LoadLookupUnresolved ==
    /\ dpc = "idle"
    /\ runningGameNumberG' = NoGame
    /\ dpc' = "idle"
    /\ UNCHANGED <<retroVideoRefreshG, syncVars, runningGameStopG, resetG,
                   avVars, videoFrameG, wpc, nthreads, runCalls,
                   videoCalls, frameVars>>

\* line 333
LoadClearStop ==
    /\ dpc = "load_clear"
    /\ runningGameStopG' = FALSE
    /\ dpc' = "load_create"
    /\ UNCHANGED <<retroVideoRefreshG, syncVars, resetG, runningGameNumberG,
                   avVars, videoFrameG, wpc, nthreads, runCalls,
                   videoCalls, frameVars>>

\* lines 336-337, pthread_create succeeds: a new runner thread starts
LoadCreate ==
    /\ dpc = "load_create"
    /\ nthreads' = nthreads + 1
    /\ wpc' = [wpc EXCEPT ![nthreads + 1] = "start"]
    /\ dpc' = "idle"
    /\ UNCHANGED <<retroVideoRefreshG, syncVars, flagVars, avVars,
                   videoFrameG, runCalls, videoCalls, frameVars>>

\* lines 336-337, pthread_create fails: return false
LoadCreateFails ==
    /\ dpc = "load_create"
    /\ dpc' = "idle"
    /\ UNCHANGED <<retroVideoRefreshG, syncVars, flagVars, avVars,
                   videoFrameG, wpc, nthreads, runCalls, videoCalls, frameVars>>

\* ---------------------------------------------------- driver: retro_run
RunCall ==
    /\ dpc = "idle"
    /\ runCalls < MaxRunCalls
    /\ runCalls' = runCalls + 1
    /\ dpc' = "run_lock"
    /\ UNCHANGED <<retroVideoRefreshG, syncVars, flagVars, avVars,
                   videoFrameG, wpc, nthreads, videoCalls, frameVars>>

\* line 343
RunLock ==
    /\ dpc = "run_lock"
    /\ \E o \in LockOutcome(Driver, "run_signal") :
          /\ mutexG' = o[1]
          /\ dpc' = o[2]
    /\ UNCHANGED <<retroVideoRefreshG, toRunnerCondG, fromRunnerCondG,
                   flagVars, avVars, videoFrameG, wpc, nthreads, runCalls,
                   videoCalls, frameVars>>

\* line 346
RunSignal ==
    /\ dpc = "run_signal"
    /\ toRunnerCondG' \in Signalled(toRunnerCondG)
    /\ dpc' = "run_wait"
    /\ UNCHANGED <<retroVideoRefreshG, mutexG, fromRunnerCondG, flagVars,
                   avVars, videoFrameG, wpc, nthreads, runCalls,
                   videoCalls, frameVars>>

\* line 349: pthread_cond_wait releases the mutex and blocks
RunWait ==
    /\ dpc = "run_wait"
    /\ mutexG' = mutexG \ {Driver}
    /\ fromRunnerCondG' = fromRunnerCondG \cup {Driver}
    /\ dpc' = "run_waiting"
    /\ UNCHANGED <<retroVideoRefreshG, toRunnerCondG, flagVars, avVars,
                   videoFrameG, wpc, nthreads, runCalls, videoCalls, frameVars>>

\* lines 349-350: once signalled, pthread_cond_wait re-acquires the mutex
\* and retro_run returns without unlocking it
RunWake ==
    /\ dpc = "run_waiting"
    /\ Driver \notin fromRunnerCondG
    /\ mutexG = {}
    /\ mutexG' = {Driver}
    /\ dpc' = "idle"
    /\ UNCHANGED <<retroVideoRefreshG, toRunnerCondG, fromRunnerCondG,
                   flagVars, avVars, videoFrameG, wpc, nthreads, runCalls,
                   videoCalls, frameVars>>

\* -------------------------------------------- driver: retro_unload_game
UnloadCall ==
    /\ dpc = "idle"
    /\ dpc' = "unload_lock"
    /\ UNCHANGED <<retroVideoRefreshG, syncVars, flagVars, avVars,
                   videoFrameG, wpc, nthreads, runCalls, videoCalls, frameVars>>

\* line 355
UnloadLock ==
    /\ dpc = "unload_lock"
    /\ \E o \in LockOutcome(Driver, "unload_check") :
          /\ mutexG' = o[1]
          /\ dpc' = o[2]
    /\ UNCHANGED <<retroVideoRefreshG, toRunnerCondG, fromRunnerCondG,
                   flagVars, avVars, videoFrameG, wpc, nthreads, runCalls,
                   videoCalls, frameVars>>

\* line 357
UnloadCheck ==
    /\ dpc = "unload_check"
    /\ dpc' = IF runningGameNumberG # NoGame THEN "unload_stop" ELSE "idle"
    /\ UNCHANGED <<retroVideoRefreshG, syncVars, flagVars, avVars,
                   videoFrameG, wpc, nthreads, runCalls, videoCalls, frameVars>>

\* line 359
UnloadStop ==
    /\ dpc = "unload_stop"
    /\ runningGameStopG' = TRUE
    /\ dpc' = "unload_signal"
    /\ UNCHANGED <<retroVideoRefreshG, syncVars, resetG, runningGameNumberG,
                   avVars, videoFrameG, wpc, nthreads, runCalls,
                   videoCalls, frameVars>>

\* line 360
UnloadSignal ==
    /\ dpc = "unload_signal"
    /\ toRunnerCondG' \in Signalled(toRunnerCondG)
    /\ dpc' = "unload_while"
    /\ UNCHANGED <<retroVideoRefreshG, mutexG, fromRunnerCondG, flagVars,
                   avVars, videoFrameG, wpc, nthreads, runCalls,
                   videoCalls, frameVars>>

\* line 363
UnloadWhile ==
    /\ dpc = "unload_while"
    /\ dpc' = IF runningGameNumberG # NoGame THEN "unload_wait"
              ELSE "unload_reset"
    /\ UNCHANGED <<retroVideoRefreshG, syncVars, flagVars, avVars,
                   videoFrameG, wpc, nthreads, runCalls, videoCalls, frameVars>>

\* line 364: release the mutex and block
UnloadWait ==
    /\ dpc = "unload_wait"
    /\ mutexG' = mutexG \ {Driver}
    /\ fromRunnerCondG' = fromRunnerCondG \cup {Driver}
    /\ dpc' = "unload_waiting"
    /\ UNCHANGED <<retroVideoRefreshG, toRunnerCondG, flagVars, avVars,
                   videoFrameG, wpc, nthreads, runCalls, videoCalls, frameVars>>

\* line 364: signalled, re-acquire the mutex, back to the loop test
UnloadWake ==
    /\ dpc = "unload_waiting"
    /\ Driver \notin fromRunnerCondG
    /\ mutexG = {}
    /\ mutexG' = {Driver}
    /\ dpc' = "unload_while"
    /\ UNCHANGED <<retroVideoRefreshG, toRunnerCondG, fromRunnerCondG,
                   flagVars, avVars, videoFrameG, wpc, nthreads, runCalls,
                   videoCalls, frameVars>>

\* lines 368-371: zero the cached values and return without unlocking
UnloadReset ==
    /\ dpc = "unload_reset"
    /\ runningGameWidthG' = 0
    /\ runningGameHeightG' = 0
    /\ runningGameSampleRateG' = 0
    /\ dpc' = "idle"
    /\ UNCHANGED <<retroVideoRefreshG, syncVars, flagVars, videoFrameG, wpc,
                   nthreads, runCalls, videoCalls, frameVars>>

\* -------------------------------------------------- driver: retro_reset
\* line 234
ResetSet ==
    /\ dpc = "idle"
    /\ resetG' = TRUE
    /\ dpc' = "reset_signal"
    /\ UNCHANGED <<retroVideoRefreshG, syncVars, runningGameStopG,
                   runningGameNumberG, avVars, videoFrameG, wpc, nthreads,
                   runCalls, videoCalls, frameVars>>

\* line 235
ResetSignal ==
    /\ dpc = "reset_signal"
    /\ toRunnerCondG' \in Signalled(toRunnerCondG)
    /\ dpc' = "idle"
    /\ UNCHANGED <<retroVideoRefreshG, mutexG, fromRunnerCondG, flagVars,
                   avVars, videoFrameG, wpc, nthreads, runCalls,
                   videoCalls, frameVars>>

\* ------------------------------------------------- worker: runner_main
WorkerGoto(w, next) == wpc' = [wpc EXCEPT ![w] = next]

\* line 199
RunnerStart(w) ==
    /\ wpc[w] = "start"
    /\ WorkerGoto(w, IF runningGameNumberG # NoGame THEN "engine_start"
                     ELSE "exit_set")
    /\ UNCHANGED <<retroVideoRefreshG, syncVars, flagVars, avVars,
                   videoFrameG, dpc, nthreads, runCalls, videoCalls, frameVars>>

\* lines 200-202: LibMame_RunGame starts the game and enters its frame loop
EngineStart(w) ==
    /\ wpc[w] = "engine_start"
    /\ WorkerGoto(w, "video")
    /\ UNCHANGED <<retroVideoRefreshG, syncVars, flagVars, avVars,
                   videoFrameG, dpc, nthreads, runCalls, videoCalls, frameVars>>

\* lines 203-223: LibMame_RunGame returns an error status without running
EngineFails(w) ==
    /\ wpc[w] = "engine_start"
    /\ WorkerGoto(w, "exit_set")
    /\ UNCHANGED <<retroVideoRefreshG, syncVars, flagVars, avVars,
                   videoFrameG, dpc, nthreads, runCalls, videoCalls, frameVars>>

\* the engine hands one frame's primitives to UpdateVideoCb, which runs to
\* its return
EngineVideo(w) ==
    /\ wpc[w] = "video"
    /\ \E list \in FrameLists, pos \in VideoExits : UpdateVideoCb(list, pos)
    /\ WorkerGoto(w, "audio")
    /\ UNCHANGED <<retroVideoRefreshG, syncVars, flagVars,
                   runningGameSampleRateG, dpc, nthreads, runCalls,
                   renderList, vpc>>

\* lines 539-553: UpdateAudioCb records the sample rate and forwards the batch
UpdateAudioCb(w) ==
    /\ wpc[w] = "audio"
    /\ \E rate \in SampleRates : runningGameSampleRateG' = rate
    /\ WorkerGoto(w, "yield_lock")
    /\ UNCHANGED <<retroVideoRefreshG, syncVars, flagVars, runningGameWidthG,
                   runningGameHeightG, videoFrameG, dpc, nthreads, runCalls,
                   videoCalls, frameVars>>

\* lines 200-205: LibMame_RunGame returns by itself between two callbacks
EngineReturns(w) ==
    /\ wpc[w] \in {"video", "audio"}
    /\ WorkerGoto(w, "exit_set")
    /\ UNCHANGED <<retroVideoRefreshG, syncVars, flagVars, avVars,
                   videoFrameG, dpc, nthreads, runCalls, videoCalls, frameVars>>

\* line 226
RunnerClearNumber(w) ==
    /\ wpc[w] = "exit_set"
    /\ runningGameNumberG' = NoGame
    /\ WorkerGoto(w, "exit_signal")
    /\ UNCHANGED <<retroVideoRefreshG, syncVars, runningGameStopG, resetG,
                   avVars, videoFrameG, dpc, nthreads, runCalls,
                   videoCalls, frameVars>>

\* lines 228-229: signal the driver; the thread ends, keeping what it holds
RunnerSignalExit(w) ==
    /\ wpc[w] = "exit_signal"
    /\ fromRunnerCondG' \in Signalled(fromRunnerCondG)
    /\ WorkerGoto(w, "dead")
    /\ UNCHANGED <<retroVideoRefreshG, mutexG, toRunnerCondG, flagVars,
                   avVars, videoFrameG, dpc, nthreads, runCalls,
                   videoCalls, frameVars>>

\* ------------------------------------- worker: MakeRunningGameCallsCb
\* line 566
YieldLock(w) ==
    /\ wpc[w] = "yield_lock"
    /\ \E o \in LockOutcome(w, "yield_signal") :
          /\ mutexG' = o[1]
          /\ WorkerGoto(w, o[2])
    /\ UNCHANGED <<retroVideoRefreshG, toRunnerCondG, fromRunnerCondG,
                   flagVars, avVars, videoFrameG, dpc, nthreads, runCalls,
                   videoCalls, frameVars>>

\* line 569
YieldSignal(w) ==
    /\ wpc[w] = "yield_signal"
    /\ fromRunnerCondG' \in Signalled(fromRunnerCondG)
    /\ WorkerGoto(w, "yield_wait")
    /\ UNCHANGED <<retroVideoRefreshG, mutexG, toRunnerCondG, flagVars,
                   avVars, videoFrameG, dpc, nthreads, runCalls,
                   videoCalls, frameVars>>

\* line 572: release the mutex and block
YieldWait(w) ==
    /\ wpc[w] = "yield_wait"
    /\ mutexG' = mutexG \ {w}
    /\ toRunnerCondG' = toRunnerCondG \cup {w}
    /\ WorkerGoto(w, "yield_waiting")
    /\ UNCHANGED <<retroVideoRefreshG, fromRunnerCondG, flagVars, avVars,
                   videoFrameG, dpc, nthreads, runCalls, videoCalls, frameVars>>

\* a wait that returns as soon as the mutex is free, signalled or not
YieldWakeUnsignalled(w) ==
    /\ wpc[w] = "yield_waiting"
    /\ mutexG = {}
    /\ mutexG' = {w}
    /\ toRunnerCondG' = toRunnerCondG \ {w}
    /\ WorkerGoto(w, "yield_stop")
    /\ UNCHANGED <<retroVideoRefreshG, fromRunnerCondG, flagVars, avVars,
                   videoFrameG, dpc, nthreads, runCalls, videoCalls, frameVars>>

\* line 572: signalled, re-acquire the mutex
YieldWake(w) ==
    /\ wpc[w] = "yield_waiting"
    /\ w \notin toRunnerCondG
    /\ mutexG = {}
    /\ mutexG' = {w}
    /\ WorkerGoto(w, "yield_stop")
    /\ UNCHANGED <<retroVideoRefreshG, toRunnerCondG, fromRunnerCondG,
                   flagVars, avVars, videoFrameG, dpc, nthreads, runCalls,
                   videoCalls, frameVars>>

\* lines 575-578: on a stop request schedule the exit, after which
\* LibMame_RunGame returns; the callback returns without unlocking
YieldStop(w) ==
    /\ wpc[w] = "yield_stop"
    /\ WorkerGoto(w, IF runningGameStopG THEN "exit_set" ELSE "yield_reset")
    /\ UNCHANGED <<retroVideoRefreshG, syncVars, flagVars, avVars,
                   videoFrameG, dpc, nthreads, runCalls, videoCalls, frameVars>>

\* a yield point that resets whether or not a reset was requested
YieldResetAlways(w) ==
    /\ wpc[w] = "yield_reset"
    /\ WorkerGoto(w, "yield_clear")
    /\ UNCHANGED <<retroVideoRefreshG, syncVars, flagVars, avVars,
                   videoFrameG, dpc, nthreads, runCalls, videoCalls,
                   frameVars>>

\* lines 580-581
YieldReset(w) ==
    /\ wpc[w] = "yield_reset"
    /\ WorkerGoto(w, IF resetG THEN "yield_clear" ELSE "video")
    /\ UNCHANGED <<retroVideoRefreshG, syncVars, flagVars, avVars,
                   videoFrameG, dpc, nthreads, runCalls, videoCalls, frameVars>>

\* line 582
YieldClear(w) ==
    /\ wpc[w] = "yield_clear"
    /\ resetG' = FALSE
    /\ WorkerGoto(w, "video")
    /\ UNCHANGED <<retroVideoRefreshG, syncVars, runningGameStopG,
                   runningGameNumberG, avVars, videoFrameG, dpc, nthreads,
                   runCalls, videoCalls, frameVars>>

\* ------------------------------------------------------- specifications
DriverCalls ==
    \/ retro_set_video_refresh
    \/ LoadLookupFound
    \/ LoadLookupUnresolved
    \/ RunCall
    \/ UnloadCall
    \/ ResetSet

DriverSteps ==
    \/ LoadClearStop
    \/ LoadCreate
    \/ RunLock
    \/ RunSignal
    \/ RunWait
    \/ RunWake
    \/ UnloadLock
    \/ UnloadCheck
    \/ UnloadStop
    \/ UnloadSignal
    \/ UnloadWhile
    \/ UnloadWait
    \/ UnloadWake
    \/ UnloadReset
    \/ ResetSignal

WorkerSteps(w) ==
    \/ RunnerStart(w)
    \/ EngineStart(w)
    \/ EngineVideo(w)
    \/ UpdateAudioCb(w)
    \/ RunnerClearNumber(w)
    \/ RunnerSignalExit(w)
    \/ YieldLock(w)
    \/ YieldSignal(w)
    \/ YieldWait(w)
    \/ YieldWake(w)
    \/ YieldStop(w)
    \/ YieldReset(w)
    \/ YieldClear(w)

Next ==
    \/ DriverCalls
    \/ DriverSteps
    \/ LoadCreateFails
    \/ \E w \in Workers : WorkerSteps(w)
    \/ \E w \in Workers : EngineFails(w)
    \/ \E w \in Workers : EngineReturns(w)

Spec == Init /\ [][Next]_vars

\* The control handshake alone: every entry point but the registration of a
\* video callback, so that UpdateVideoCb returns at line 462 and the frame
\* state stays as initialised.
ControlNext ==
    \/ LoadLookupFound
    \/ LoadLookupUnresolved
    \/ RunCall
    \/ UnloadCall
    \/ ResetSet
    \/ DriverSteps
    \/ LoadCreateFails
    \/ \E w \in Workers : WorkerSteps(w)
    \/ \E w \in Workers : EngineFails(w)
    \/ \E w \in Workers : EngineReturns(w)

ControlSpec == Init /\ [][ControlNext]_vars

\* Every load names a game the engine knows.
ResolvedNext ==
    \/ retro_set_video_refresh
    \/ LoadLookupFound
    \/ RunCall
    \/ UnloadCall
    \/ ResetSet
    \/ DriverSteps
    \/ LoadCreateFails
    \/ \E w \in Workers : WorkerSteps(w)
    \/ \E w \in Workers : EngineFails(w)
    \/ \E w \in Workers : EngineReturns(w)

ResolvedSpec == Init /\ [][ResolvedNext]_vars

\* One session under a fair scheduler: a single successful load, then any
\* driver calls; the engine may fail to start, but once in its frame loop it
\* keeps running frames; a thread that can take a step eventually takes it.
SessionLoad == nthreads = 0 /\ LoadLookupFound

FairNext ==
    \/ retro_set_video_refresh
    \/ SessionLoad
    \/ RunCall
    \/ UnloadCall
    \/ ResetSet
    \/ DriverSteps
    \/ \E w \in Workers : WorkerSteps(w)
    \/ \E w \in Workers : EngineFails(w)

FairSpec ==
    /\ Init
    /\ [][FairNext]_vars
    /\ WF_vars(DriverSteps)
    /\ \A w \in Workers : WF_vars(WorkerSteps(w))

\* Frame stepping alone, under a fair scheduler: a single successful load
\* followed by retro_run calls and nothing else, with an engine that starts
\* and keeps running frames.  The steps left out (the unload and reset entry
\* points, the exit path of runner_main, the clearing of resetG) are never
\* enabled when the driver makes no other call.
FrameDriverSteps ==
    \/ LoadClearStop
    \/ LoadCreate
    \/ RunLock
    \/ RunSignal
    \/ RunWait
    \/ RunWake

FrameWorkerSteps(w) ==
    \/ RunnerStart(w)
    \/ EngineStart(w)
    \/ EngineVideo(w)
    \/ UpdateAudioCb(w)
    \/ YieldLock(w)
    \/ YieldSignal(w)
    \/ YieldWait(w)
    \/ YieldWake(w)
    \/ YieldStop(w)
    \/ YieldReset(w)

FrameNext ==
    \/ retro_set_video_refresh
    \/ SessionLoad
    \/ RunCall
    \/ FrameDriverSteps
    \/ \E w \in Workers : FrameWorkerSteps(w)

FrameSpec ==
    /\ Init
    /\ [][FrameNext]_vars
    /\ WF_vars(FrameDriverSteps)
    /\ \A w \in Workers : WF_vars(FrameWorkerSteps(w))

\* The converter under frame stepping: FrameSpec's session, with the engine
\* drawing each frame's primitives from ConverterLists and UpdateVideoCb
\* observed at its return statement.  The palette-indexed surfaces are well
\* formed: base holds rowpixels * height elements, each within the palette.
Line == Prim("Line", FALSE, "Undefined", 0, 0, 0, <<>>, <<>>)

Screen(format, width, height, rowpixels, base, palette) ==
    Prim("Quad", TRUE, format, width, height, rowpixels, base, palette)

ConverterLists ==
    { <<>>,
      << Line, Prim("Quad", FALSE, "Palette16", 1, 1, 1, <<1>>, PaletteA) >>,
      << Line,
         Screen("Palette16", 2, 2, 3, <<0, 1, 2, 1, 0, 2>>, PaletteA),
         Screen("Palette16", 1, 1, 1, <<1>>, PaletteA) >>,
      << Screen("PaletteA16", 1, 2, 1, <<2, 1>>, PaletteA) >>,
      << Screen("YUY16", 3, 1, 3, <<0, 0, 0>>, <<>>),
         Screen("Palette16", 1, 1, 1, <<1>>, PaletteA) >>,
      << Screen("Undefined", 1, 3, 1, <<>>, <<>>) >>,
      << Screen("Other", 3, 3, 3, <<>>, <<>>) >>,
      << Screen("Palette16", 1000001, 1, 1000001, <<>>, PaletteA) >>,
      << Screen("Palette16", 65536, 65536, 65536, <<>>, PaletteA) >>,
      << Screen("RGB32", 1, 1, 1, << <<0, 0>> >>, << <<255, 65535>> >>) >>,
      << Screen("ARGB32", 2, 1, 2, << <<65535, 65535>>, <<255, 65535>> >>,
                PaletteA) >> }

\* the engine calls UpdateVideoCb, which runs up to its return statement
EngineRenders(w) ==
    /\ wpc[w] = "video"
    /\ \E list \in ConverterLists, pos \in VideoExits :
          /\ UpdateVideoCb(list, pos)
          /\ renderList' = [renderList EXCEPT ![w] = list]
          /\ vpc' = [vpc EXCEPT ![w] = pos]
    /\ WorkerGoto(w, "video_ret")
    /\ UNCHANGED <<retroVideoRefreshG, syncVars, flagVars,
                   runningGameSampleRateG, dpc, nthreads, runCalls>>

\* UpdateVideoCb returns to the engine
VideoReturn(w) ==
    /\ wpc[w] = "video_ret"
    /\ renderList' = [renderList EXCEPT ![w] = <<>>]
    /\ vpc' = [vpc EXCEPT ![w] = "none"]
    /\ WorkerGoto(w, "audio")
    /\ UNCHANGED <<retroVideoRefreshG, syncVars, flagVars, avVars,
                   videoFrameG, dpc, nthreads, runCalls, videoCalls,
                   lastRefresh>>

ConverterWorkerSteps(w) ==
    \/ RunnerStart(w)
    \/ EngineStart(w)
    \/ EngineRenders(w)
    \/ VideoReturn(w)
    \/ UpdateAudioCb(w)
    \/ YieldLock(w)
    \/ YieldSignal(w)
    \/ YieldWait(w)
    \/ YieldWake(w)
    \/ YieldStop(w)
    \/ YieldReset(w)

ConverterNext ==
    \/ retro_set_video_refresh
    \/ SessionLoad
    \/ RunCall
    \/ FrameDriverSteps
    \/ \E w \in Workers : ConverterWorkerSteps(w)

ConverterSpec == Init /\ [][ConverterNext]_vars

\* ----------------------------------------------------------------- claims
RunPcs == {"run_lock", "run_signal", "run_wait", "run_waiting"}
UnloadPcs == {"unload_lock", "unload_check", "unload_stop", "unload_signal",
              "unload_while", "unload_wait", "unload_waiting", "unload_reset"}
EnginePcs == {"engine_start", "video", "video_ret", "audio"}
LoopPcs == {"video", "video_ret", "audio", "yield_lock", "yield_signal", "yield_wait",
            "yield_waiting", "yield_stop", "yield_reset", "yield_clear"}
Alive(w) == wpc[w] \notin {"unborn", "dead"}
DriverActs == wpc' = wpc
WorkerActs(w) == wpc'[w] # wpc[w]

\* C1: on a loaded session whose engine yields once per frame, every
\* retro_run call eventually returns, and every arrival of the worker at its
\* yield point eventually reaches the wait on toRunnerCondG.
C1_HandshakeNeverDeadlocks ==
    /\ (dpc = "run_lock" /\ runningGameNumberG # NoGame) ~> (dpc = "idle")
    /\ \A w \in Workers : (wpc[w] = "yield_lock") ~> (wpc[w] = "yield_waiting")

\* C2: every retro_unload_game call made while a game is loaded and its
\* worker is in the engine's frame loop eventually returns.
C2_UnloadTerminates ==
    (dpc = "unload_lock" /\ runningGameNumberG # NoGame
        /\ \E w \in Workers : wpc[w] \in LoopPcs)
      ~> (dpc = "idle")

\* C3: the first step retro_run takes when no game is loaded is its return,
\* and it changes nothing of the session state (no lock taken, no wait).
C3_RunWithoutGameIsNoop ==
    [][(dpc = "run_lock" /\ runningGameNumberG = NoGame /\ dpc' # dpc)
          => (dpc' = "idle"
              /\ UNCHANGED <<syncVars, flagVars, avVars, videoFrameG>>)]_vars

\* C4: the video-delivery callback has been invoked at most as many times as
\* retro_run has been called (so never before the first retro_run call).
C4_VideoCallsAtMostRunCalls == videoCalls <= runCalls

\* C5: a worker executes engine or frame-production code only while the
\* driver is blocked inside retro_run or retro_unload_game.
C5_StrictAlternation ==
    \A w \in Workers :
        wpc[w] \in EnginePcs => dpc \in {"run_waiting", "unload_waiting"}

\* steps that wake a thread, and steps in which a woken thread resumes
DriverSignalsRunner ==
    dpc \in {"run_signal", "unload_signal", "reset_signal"} /\ DriverActs
RunnerReleased(w) == w \in toRunnerCondG /\ w \notin toRunnerCondG'
DriverReleased == Driver \in fromRunnerCondG /\ Driver \notin fromRunnerCondG'
WorkerWaitDiscipline ==
    \A w \in Workers :
        /\ RunnerReleased(w) => DriverSignalsRunner
        /\ (wpc[w] = "yield_waiting" /\ WorkerActs(w)) => w \notin toRunnerCondG
RunReturnsWhenReleased ==
    (dpc \in {"run_waiting", "unload_waiting"} /\ dpc' # dpc)
        => Driver \notin fromRunnerCondG

C7_FlagWritesUnderMutex ==
    [][(flagVars' # flagVars)
          => \/ DriverActs /\ mutexG = {Driver}
             \/ \E w \in Workers : WorkerActs(w) /\ mutexG = {w}]_vars

\* C8: at most one runner thread is alive at any instant.
C8_AtMostOneWorker == Cardinality({w \in Workers : Alive(w)}) <= 1

\* C9: a retro_load_game call whose game lookup fails (the only driver call,
\* apart from registering a callback, that returns in a single step) leaves the loaded-game
\* number, the stop and reset intents and the cached width, height and
\* sample rate as they were, and creates no thread.
C9_FailedLoadChangesNothing ==
    [][(dpc = "idle" /\ dpc' = "idle" /\ DriverActs
        /\ UNCHANGED retroVideoRefreshG)
          => UNCHANGED <<flagVars, avVars, wpc, nthreads>>]_vars

\* C10: when retro_unload_game returns, no game is loaded and the cached
\* width, height and sample rate are zero.
C10_UnloadZeroesCache ==
    [][(dpc \in UnloadPcs /\ dpc' = "idle")
          => /\ runningGameNumberG' = NoGame
             /\ runningGameWidthG' = 0
             /\ runningGameHeightG' = 0
             /\ runningGameSampleRateG' = 0]_vars

\* C11: when the engine fails to start or returns by itself, the runner
\* thread ends leaving no running game, and from then on, with no unload
\* called, retro_get_system_av_info reports zero width, height, sample rate
\* and fps.  A runner thread that has ended while no stop was requested has
\* ended by itself.
C11_SelfExitRevertsToZero ==
    \A w \in Workers :
        wpc[w] = "dead" /\ ~runningGameStopG /\ runningGameNumberG = NoGame
        => /\ retro_get_system_av_info.base_width = 0
           /\ retro_get_system_av_info.base_height = 0
           /\ retro_get_system_av_info.max_width = 0
           /\ retro_get_system_av_info.max_height = 0
           /\ retro_get_system_av_info.sample_rate = 0
           /\ retro_get_system_av_info.fps = 0

\* C12: when a successful retro_load_game starts the runner thread
\* (pthread_create, line 337), the stop intent and the reset intent are both
\* clear, so that a reset requested before the load is not applied to the
\* game just started.
C12_LoadClearsBothIntents ==
    [][dpc = "load_create" /\ nthreads' = nthreads + 1
       => ~runningGameStopG' /\ ~resetG']_vars

\* the runner thread w calls LibMame_RunningGame_Schedule_Soft_Reset
\* (line 581)
SoftResetIssued(w) == wpc[w] = "yield_reset" /\ wpc'[w] = "yield_clear"

\* C13: retro_reset only sets the reset intent and moves no runner thread;
\* the soft reset is issued by a runner thread at its yield point, after it
\* was released from its wait (it owns the mutex), while the intent is set
\* and no stop is pending; it is issued at most once per request: no thread
\* issues one while another has issued and not yet cleared the intent, and
\* the issuing thread's next step clears the intent; a thread that finds the
\* stop intent set at its yield point goes to schedule its exit instead.
C13_ResetIssuedOnceAtYield ==
    [][/\ dpc = "idle" /\ dpc' = "reset_signal" => resetG' /\ wpc' = wpc
       /\ \A w \in Workers :
            /\ SoftResetIssued(w)
               => /\ resetG /\ ~runningGameStopG /\ mutexG = {w}
                  /\ \A v \in Workers \ {w} : wpc[v] # "yield_clear"
            /\ wpc[w] = "yield_clear" /\ WorkerActs(w)
               => ~resetG' /\ wpc'[w] = "video"
            /\ wpc[w] = "yield_stop" /\ runningGameStopG /\ WorkerActs(w)
               => wpc'[w] = "exit_set"]_vars

\* a runner thread has issued the soft reset a pending request asked for
C13_Witness ==
    \E w \in Workers : wpc[w] = "yield_clear" /\ resetG /\ dpc = "idle"

\* the primitive a call selects (lines 473-476), and the one thread w's did
SelectedOf(list) == list[SelectPrim(list)]
Selected(w) == SelectedOf(renderList[w])

\* thread w calls UpdateVideoCb and runs it up to its return statement
VideoCall(w) == vpc[w] = "none" /\ vpc'[w] # "none"

\* what a dropped frame leaves alone: the Frame Buffer, the cached width and
\* height, and the video callback
FrameKept == UNCHANGED <<videoFrameG, runningGameWidthG, runningGameHeightG,
                         videoCalls, lastRefresh>>

\* the conversion loops of thread w's call ran
Converted(w) == vpc[w] \in {"delivered", "overrun"}

\* width * height, the number of pixels the loops write, is at most n
WritesAtMost(prim, n) == prim.width = 0 \/ prim.height <= n \div prim.width

\* C14: the capacity of videoFrameG (1000 * 1000 pixels) is never exceeded:
\* whatever the 32-bit width and height of the selected surface, with their
\* product computed in 32-bit arithmetic, a call that converts writes at most
\* 1,000,000 destination pixels.
C14_NeverWritesBeyondCapacity ==
    \A w \in Workers :
        Converted(w)
        => WritesAtMost(Selected(w), FrameCapacity)
           /\ Len(videoFrameG) <= FrameCapacity

\* C15: a selected surface whose width * height is above the capacity, by
\* one unit or by more, is dropped: the Frame Buffer and the cached width and
\* height stay as they were and the video callback is not invoked.
C15_OversizedIsDropped ==
    [][\A w \in Workers :
          /\ VideoCall(w)
          /\ SelectPrim(renderList'[w]) # 0
          /\ ~WritesAtMost(SelectedOf(renderList'[w]), FrameCapacity)
          => FrameKept]_vars

\* the position in list of the first quad with the screen-texture flag, 0
\* when there is none
FirstQuad(list) ==
    LET quads == {i \in 1 .. Len(list) :
                     list[i].type = "Quad" /\ list[i].screen}
    IN  IF quads = {} THEN 0
        ELSE CHOOSE i \in quads : \A j \in quads : i <= j

\* C16: UpdateVideoCb converts the first primitive of the list that is a
\* quad with the screen-texture flag and ignores every earlier and later
\* one: a call does to the Frame Buffer, the cached width and height and the
\* video callback exactly what it does when handed that primitive alone, and
\* the dimensions it caches and delivers are that primitive's; when no
\* primitive qualifies the Frame Buffer and the cached width and height stay
\* as they were and the callback is not invoked.
C16_FirstScreenQuadOnly ==
    [][\A w \in Workers :
          VideoCall(w)
          => LET list == renderList'[w]
                 first == FirstQuad(list)
             IN  /\ first = 0 => FrameKept
                 /\ first # 0 => UpdateVideoCb(<<list[first]>>, vpc'[w])
                 /\ first # 0 /\ vpc'[w] = "delivered"
                    => /\ runningGameWidthG' = list[first].width
                       /\ runningGameHeightG' = list[first].height
                       /\ lastRefresh' = RefreshArgs(list[first].width,
                                                     list[first].height)]_vars

\* a call has converted the second of three primitives, the first being no
\* quad and the third being a screen quad too
C16_Witness ==
    \E w \in Workers :
        /\ vpc[w] = "delivered"
        /\ Len(renderList[w]) = 3
        /\ FirstQuad(renderList[w]) = 2
        /\ Eligible(renderList[w][3])
        /\ renderList[w][3].width # renderList[w][2].width
        /\ runningGameWidthG = renderList[w][2].width
        /\ Len(videoFrameG) = renderList[w][2].width * renderList[w][2].height

\* the source element behind the k-th destination pixel of a surface
SrcOf(prim, k) == SrcAt(prim, (k - 1) % prim.width, (k - 1) \div prim.width)

\* two packed pixels that differ at most in alpha and in the low two bits of
\* their 8-bit channels
SameTopBits(u, v) ==
    /\ (u[1] % 256) \div 4 = (v[1] % 256) \div 4
    /\ (u[2] \div 256) \div 4 = (v[2] \div 256) \div 4
    /\ (u[2] % 256) \div 4 = (v[2] % 256) \div 4

\* C17: for an RGB32 or ARGB32 surface every destination pixel is computed
\* from the source pixel's own packed value, from the top bits of its three
\* 8-bit channels, alpha discarded: source 0xFFFFFFFF gives the largest
\* 16-bit value, source 0 gives 0, and two source pixels that differ only in
\* alpha or in the low two bits of a channel give equal destination pixels.
C17_RGBFromSourceTopBits ==
    \A w \in Workers :
        vpc[w] = "delivered" /\ IsRGBFormat(Selected(w).format)
        => \A k \in 1 .. Selected(w).width * Selected(w).height :
              /\ SrcOf(Selected(w), k) = <<65535, 65535>>
                 => videoFrameG[k] = 65535
              /\ SrcOf(Selected(w), k) = <<0, 0>> => videoFrameG[k] = 0
              /\ \A j \in 1 .. Selected(w).width * Selected(w).height :
                    SameTopBits(SrcOf(Selected(w), j), SrcOf(Selected(w), k))
                    => videoFrameG[j] = videoFrameG[k]

\* thread w's call has delivered a palette-indexed surface
PaletteDelivered(w) ==
    vpc[w] = "delivered" /\ IsPaletteFormat(Selected(w).format)

\* the palette entry, a 32-bit word, that the claim names for pixel (x, y)
EntryFor(prim, x, y) ==
    prim.palette[prim.base[y * prim.rowpixels + x + 1] + 1]

\* C18 as stated: for a Palette16 or PaletteA16 surface of width w, height h
\* and stride rowpixels >= w, the destination pixel (x, y) is at index
\* y * w + x and equals palette[src[y * rowpixels + x]].
C18_PalettePixelEqualsEntry ==
    \A w \in Workers :
        PaletteDelivered(w) /\ Selected(w).rowpixels >= Selected(w).width
        => \A x \in 0 .. Selected(w).width - 1,
              y \in 0 .. Selected(w).height - 1 :
              EntryFor(Selected(w), x, y)
                  = <<0, videoFrameG[y * Selected(w).width + x + 1]>>

\* C18, amended: the destination pixel (x, y) is at index y * w + x and
\* equals the low 16 bits of palette[src[y * rowpixels + x]]; the elements
\* in the stride padding are not read into the output.
C18_PalettePixelIsEntryLow16 ==
    \A w \in Workers :
        PaletteDelivered(w) /\ Selected(w).rowpixels >= Selected(w).width
        => /\ Len(videoFrameG) >= Selected(w).width * Selected(w).height
           /\ \A x \in 0 .. Selected(w).width - 1,
                 y \in 0 .. Selected(w).height - 1 :
                 videoFrameG[y * Selected(w).width + x + 1]
                     = EntryFor(Selected(w), x, y)[2]

\* a 2 x 2 surface with one element of padding per row has been delivered,
\* the padding holding an index whose colour is not in the output
C18_Witness ==
    \E w \in Workers :
        /\ PaletteDelivered(w)
        /\ Selected(w).width = 2 /\ Selected(w).height = 2
        /\ Selected(w).rowpixels = 3
        /\ Selected(w).base = <<0, 1, 2, 1, 0, 2>>
        /\ videoFrameG = <<0, 31, 31, 0>>

\* C19: every operation that locks mutexG (retro_run, retro_unload_game,
\* MakeRunningGameCallsCb) has unlocked it when it returns: the driver does
\* not own the mutex outside an entry point, and a runner thread does not
\* own it while it runs engine code or after it has ended.
C19_LockBalance ==
    /\ dpc = "idle" => mutexG # {Driver}
    /\ \A w \in Workers :
          wpc[w] \in EnginePcs \cup {"dead"} => mutexG # {w}

\* C20: in every state the cached width and height that geometry queries
\* report are both zero, or are the width and height of the frame last
\* delivered to the video callback, which videoFrameG holds; so a frame
\* dropped for its format (YUY16, undefined, unrecognized) changes neither.
C20_CachedDimsAreDeliveredDims ==
    \/ /\ retro_get_system_av_info.base_width = 0
       /\ retro_get_system_av_info.base_height = 0
    \/ /\ lastRefresh # <<>>
       /\ retro_get_system_av_info.base_width = lastRefresh[1]
       /\ retro_get_system_av_info.base_height = lastRefresh[2]
       /\ Len(videoFrameG) >= lastRefresh[1] * lastRefresh[2]

====
